---- MODULE Spec2Model ----
(***************************************************************************)
(* Model of ytmapi-rs/src/parse/home.rs: the home feed parser.             *)
(*                                                                         *)
(* A JSON node is a record of the pointer paths the parser reads.  An      *)
(* optional JSON value is a sequence of length at most one: <<>> when the  *)
(* path does not resolve (or holds a value of the wrong type), <<v>> when  *)
(* it resolves to v.  Strings the parser inspects (subtitle run texts,     *)
(* browse ids) are sequences of one-character strings, so that length,     *)
(* prefix, digit and substring tests are computed as the code computes     *)
(* them.                                                                   *)
(***************************************************************************)
EXTENDS Integers, Sequences, FiniteSets, TLC

VARIABLES
    item,        \* the item card given to parse_home_item
    itemPc,      \* "idle", "loaded" (card not yet parsed) or "done"
    itemRes,     \* what parse_home_item returned
    itemData,    \* the card's node as the parse left it
    doc,         \* the page document last fetched
    lastOp,      \* the operation that ran last
    res,         \* what the last start or resume returned
    feed,        \* the caller's running HomeSections
    prevFeed,    \* the running feed before the last operation on it
    firstChips,  \* the chips of the page the running feed began with
    truncLen     \* the argument of the last truncate

vars == <<item, itemPc, itemRes, itemData,
          doc, lastOp, res, feed, prevFeed, firstChips, truncLen>>

itemVars == <<item, itemPc, itemRes, itemData>>
feedVars == <<doc, lastOp, res, feed, prevFeed, firstChips, truncLen>>

----------------------------------------------------------------------------
(* Bounds of the model. *)

\* Longest subtitle run array of an item card.
MaxRuns == 5
\* Most rows of one page document.
MaxRows == 2
\* Most sections the running feed grows to before merges stop.
MaxSections == 3

----------------------------------------------------------------------------
(* Option values and strings. *)

None == <<>>
Some(v) == <<v>>
IsSome(o) == Len(o) > 0
Unwrap(o) == o[1]

Digits == {"0", "1", "2", "3", "4", "5", "6", "7", "8", "9"}

\* char::is_ascii_digit
is_ascii_digit(c) == c \in Digits

\* s.chars().all(|c| c.is_ascii_digit())
AllDigits(s) == \A i \in 1..Len(s) : is_ascii_digit(s[i])

\* s.chars().any(|c| c.is_ascii_digit())
AnyDigit(s) == \E i \in 1..Len(s) : is_ascii_digit(s[i])

\* str::starts_with
starts_with(s, p) == Len(s) >= Len(p) /\ SubSeq(s, 1, Len(p)) = p

\* str::contains
contains(s, p) ==
    \E i \in 1..(Len(s) + 1) :
        i + Len(p) - 1 <= Len(s) /\ SubSeq(s, i, i + Len(p) - 1) = p

\* Positions at which the pattern p occurs in s.
Occurrences(s, p) ==
    {i \in 1..Len(s) : i + Len(p) - 1 <= Len(s) /\ SubSeq(s, i, i + Len(p) - 1) = p}

SetMin(S) == CHOOSE x \in S : \A y \in S : x <= y
SetMax(S) == CHOOSE x \in S : \A y \in S : x >= y

\* s.split(p).next(): the text before the first occurrence of p.
SplitFirst(s, p) ==
    IF Occurrences(s, p) = {} THEN s
    ELSE SubSeq(s, 1, SetMin(Occurrences(s, p)) - 1)

\* s.split(p).last(): the text after the last occurrence of p.
SplitLast(s, p) ==
    IF Occurrences(s, p) = {} THEN s
    ELSE SubSeq(s, SetMax(Occurrences(s, p)) + Len(p), Len(s))

\* parts.join("")
RECURSIVE Join(_)
Join(parts) == IF parts = <<>> THEN <<>> ELSE Head(parts) \o Join(Tail(parts))

----------------------------------------------------------------------------
(* String literals of the parser. *)

S_Album == <<"A", "l", "b", "u", "m">>
S_Single == <<"S", "i", "n", "g", "l", "e">>
S_EP == <<"E", "P">>
S_Song == <<"S", "o", "n", "g">>
S_Video == <<"V", "i", "d", "e", "o">>
S_views == <<"v", "i", "e", "w", "s">>
S_visualizaciones ==
    <<"v", "i", "s", "u", "a", "l", "i", "z", "a", "c", "i", "o", "n", "e", "s">>
S_MPRE == <<"M", "P", "R", "E">>
S_VL == <<"V", "L">>
S_Space == <<" ">>
\* The separator " \u2022 " of parse_home_video; "*" stands for the bullet.
S_Bullet == <<" ", "*", " ">>

----------------------------------------------------------------------------
(* The document navigator (json_crawler), on the record of a node's paths. *)

\* JsonCrawler::take_value_pointer: the value at the path, and the node with
\* that value removed.
take_value_pointer(data, path) ==
    [val |-> data[path], data |-> [data EXCEPT ![path] = None]]

\* JsonCrawler::path_exists
path_exists(data, path) == IsSome(data[path])

\* Deserialisation of YoutubeMusicVideoType from its wire string: the concrete
\* values the classifier names, and no value for any other string.
VideoTypes ==
    {"MUSIC_VIDEO_TYPE_UGC", "MUSIC_VIDEO_TYPE_OMV", "MUSIC_VIDEO_TYPE_SHOULDER",
     "MUSIC_VIDEO_TYPE_ATV", "MUSIC_VIDEO_TYPE_OFFICIAL_SOURCE_MUSIC"}

YoutubeMusicVideoType(raw) ==
    IF IsSome(raw) /\ Unwrap(raw) \in VideoTypes THEN raw ELSE None

\* The three values that make an item a video.
IsVideoType(vt) ==
    vt \in {Some("MUSIC_VIDEO_TYPE_UGC"), Some("MUSIC_VIDEO_TYPE_OMV"),
            Some("MUSIC_VIDEO_TYPE_SHOULDER")}

\* Index (from 1) of the run SUBTITLE points at: /subtitle/runs/0/text.
SubtitleIdx == 1
\* Index (from 1) of the run SUBTITLE2 points at: /subtitle/runs/2/text.
Subtitle2Idx == 3

\* take_value_pointer at the text of the k-th subtitle run.
take_run_text(data, k) ==
    IF data.runs.shape = "array" /\ k <= Len(data.runs.items)
    THEN [val |-> data.runs.items[k].text,
          data |-> [data EXCEPT !.runs.items[k].text = None]]
    ELSE [val |-> None, data |-> data]

----------------------------------------------------------------------------
(* Subtitle runs. *)

\* get_full_subtitle reading the run texts and leaving them in the runs.
get_full_subtitle_keeps_texts(data) ==
    IF data.runs.shape = "array"
    THEN LET items == data.runs.items
             parts == Join([k \in 1..Len(items) |->
                              IF IsSome(items[k].text)
                              THEN <<Unwrap(items[k].text)>> ELSE <<>>])
         IN [val |-> IF parts = <<>> THEN None ELSE Some(Join(parts)),
             data |-> data]
    ELSE [val |-> None, data |-> data]

\* get_full_subtitle: every run text is taken and the texts are joined.
get_full_subtitle(data) ==
    IF data.runs.shape = "array"
    THEN LET items == data.runs.items
             parts == Join([k \in 1..Len(items) |->
                              IF IsSome(items[k].text)
                              THEN <<Unwrap(items[k].text)>> ELSE <<>>])
             taken == [k \in 1..Len(items) |-> [items[k] EXCEPT !.text = None]]
         IN [val |-> IF parts = <<>> THEN None ELSE Some(Join(parts)),
             data |-> [data EXCEPT !.runs.items = taken]]
    ELSE [val |-> None, data |-> data]

\* The type specifiers parse_artists_from_subtitle_runs skips.
TypeSpecifiers == {S_Album, S_Single, S_EP, S_Song, S_Video}

\* text.len() == 4 && text.chars().all(|c| c.is_ascii_digit())
LooksLikeYear(text) == Len(text) = 4 /\ AllDigits(text)

\* One pass of the loop body of parse_artists_from_subtitle_runs on the run at
\* 0-based index i: the run as the pass leaves it, and the artist it pushes.
artists_run(run, i) ==
    IF i % 2 # 0 THEN [run |-> run, push |-> <<>>]
    ELSE IF ~IsSome(run.text) THEN [run |-> run, push |-> <<>>]
    ELSE LET text == Unwrap(run.text)
             r1 == [run EXCEPT !.text = None]
         IN IF text \in TypeSpecifiers THEN [run |-> r1, push |-> <<>>]
            ELSE IF LooksLikeYear(text) THEN [run |-> r1, push |-> <<>>]
            ELSE [run |-> [r1 EXCEPT !.browseId = None],
                  push |-> <<[name |-> text, id |-> run.browseId]>>]

\* parse_artists_from_subtitle_runs
parse_artists_from_subtitle_runs(data) ==
    IF data.runs.shape = "absent"
    THEN [ok |-> TRUE, artists |-> <<>>, data |-> data]
    ELSE IF data.runs.shape # "array"
    THEN [ok |-> FALSE, artists |-> <<>>, data |-> data]
    ELSE LET items == data.runs.items
             pass == [k \in 1..Len(items) |-> artists_run(items[k], k - 1)]
         IN [ok |-> TRUE,
             artists |-> Join([k \in 1..Len(items) |-> pass[k].push]),
             data |-> [data EXCEPT
                         !.runs.items = [k \in 1..Len(items) |-> pass[k].run]]]

\* One pass of the loop body of parse_song_artists_from_runs.
song_artists_run(run, i) ==
    IF i % 2 # 0 THEN [run |-> run, push |-> <<>>]
    ELSE IF ~IsSome(run.text) THEN [run |-> run, push |-> <<>>]
    ELSE LET text == Unwrap(run.text)
             r1 == [run EXCEPT !.text = None]
             r2 == [r1 EXCEPT !.browseId = None]
         IN IF text = S_Song \/ text = S_Video THEN [run |-> r1, push |-> <<>>]
            ELSE IF contains(text, S_views) THEN [run |-> r1, push |-> <<>>]
            ELSE IF IsSome(run.browseId) /\ starts_with(Unwrap(run.browseId), S_MPRE)
            THEN [run |-> r2, push |-> <<>>]
            ELSE [run |-> r2, push |-> <<[name |-> text, id |-> run.browseId]>>]

\* parse_song_artists_from_runs
parse_song_artists_from_runs(data) ==
    IF data.runs.shape = "absent"
    THEN [ok |-> TRUE, artists |-> <<>>, data |-> data]
    ELSE IF data.runs.shape # "array"
    THEN [ok |-> FALSE, artists |-> <<>>, data |-> data]
    ELSE LET items == data.runs.items
             pass == [k \in 1..Len(items) |-> song_artists_run(items[k], k - 1)]
         IN [ok |-> TRUE,
             artists |-> Join([k \in 1..Len(items) |-> pass[k].push]),
             data |-> [data EXCEPT
                         !.runs.items = [k \in 1..Len(items) |-> pass[k].run]]]

\* The loop of parse_album_from_subtitle_runs from run k on: it stops at the
\* first run with an "MPRE" browse id and a text.
RECURSIVE album_loop(_, _)
album_loop(items, k) ==
    IF k > Len(items) THEN [album |-> None, items |-> items]
    ELSE LET run == items[k]
             r1 == [run EXCEPT !.browseId = None]
             i1 == [items EXCEPT ![k] = r1]
         IN IF IsSome(run.browseId) /\ starts_with(Unwrap(run.browseId), S_MPRE)
            THEN IF IsSome(run.text)
                 THEN [album |-> Some([name |-> Unwrap(run.text),
                                       id |-> Unwrap(run.browseId)]),
                       items |-> [items EXCEPT ![k] = [r1 EXCEPT !.text = None]]]
                 ELSE album_loop(i1, k + 1)
            ELSE album_loop(i1, k + 1)

\* parse_album_from_subtitle_runs
parse_album_from_subtitle_runs(data) ==
    IF data.runs.shape = "absent"
    THEN [ok |-> TRUE, album |-> None, data |-> data]
    ELSE IF data.runs.shape # "array"
    THEN [ok |-> FALSE, album |-> None, data |-> data]
    ELSE LET r == album_loop(data.runs.items, 1)
         IN [ok |-> TRUE, album |-> r.album,
             data |-> [data EXCEPT !.runs.items = r.items]]

----------------------------------------------------------------------------
(* The item parsers.  Each returns a record with tag "Err" when a required  *)
(* field is missing, and otherwise the parsed item under its variant's tag. *)

Err(data) == [tag |-> "Err", data |-> data]

\* The fields every variant requires first: title text, the identifier at
\* idPath, and the thumbnails; ok is FALSE when one of them is missing.
take_required(data, idPath) ==
    LET t == take_value_pointer(data, "title")
        i == take_value_pointer(t.data, idPath)
        th == take_value_pointer(i.data, "thumbnails")
    IN IF ~IsSome(t.val) THEN [ok |-> FALSE, data |-> t.data]
       ELSE IF ~IsSome(i.val) THEN [ok |-> FALSE, data |-> i.data]
       ELSE IF ~IsSome(th.val) THEN [ok |-> FALSE, data |-> th.data]
       ELSE [ok |-> TRUE, data |-> th.data, title |-> Unwrap(t.val),
             id |-> Unwrap(i.val), thumbnails |-> Unwrap(th.val)]

\* parse_home_album
parse_home_album(data) ==
    LET req == take_required(data, "browseId")
    IN IF ~req.ok THEN Err(req.data)
       ELSE LET sub == get_full_subtitle(req.data)
                art == parse_artists_from_subtitle_runs(sub.data)
                y == take_run_text(art.data, Subtitle2Idx)
                ty == take_run_text(y.data, SubtitleIdx)
            IN IF ~art.ok THEN Err(art.data)
               ELSE [tag |-> "Album",
                     title |-> req.title,
                     album_id |-> req.id,
                     thumbnails |-> req.thumbnails,
                     year |-> IF IsSome(y.val) /\ AllDigits(Unwrap(y.val))
                                    /\ Len(Unwrap(y.val)) = 4
                              THEN y.val ELSE None,
                     artists |-> art.artists,
                     explicit |-> path_exists(y.data, "badge"),
                     album_type |-> ty.val,
                     subtitle |-> sub.val,
                     data |-> ty.data]

\* parse_home_artist
parse_home_artist(data) ==
    LET req == take_required(data, "browseId")
    IN IF ~req.ok THEN Err(req.data)
       ELSE LET sub == get_full_subtitle(req.data)
            IN [tag |-> "Artist",
                title |-> req.title,
                channel_id |-> req.id,
                subscribers |-> IF IsSome(sub.val)
                                THEN Some(SplitFirst(Unwrap(sub.val), S_Space))
                                ELSE None,
                thumbnails |-> req.thumbnails,
                subtitle |-> sub.val,
                data |-> sub.data]

\* parse_home_playlist
parse_home_playlist(data) ==
    LET req == take_required(data, "browseId")
    IN IF ~req.ok THEN Err(req.data)
       ELSE LET sub == get_full_subtitle(req.data)
                c == take_run_text(sub.data, Subtitle2Idx)
                au == parse_artists_from_subtitle_runs(c.data)
            IN [tag |-> "Playlist",
                title |-> req.title,
                playlist_id |-> IF starts_with(req.id, S_VL)
                                THEN SubSeq(req.id, 3, Len(req.id))
                                ELSE req.id,
                thumbnails |-> req.thumbnails,
                description |-> sub.val,
                count |-> IF IsSome(c.val) /\ AnyDigit(Unwrap(c.val))
                          THEN Some(SplitFirst(Unwrap(c.val), S_Space))
                          ELSE None,
                author |-> IF au.ok THEN au.artists ELSE <<>>,
                subtitle |-> sub.val,
                data |-> au.data]

\* parse_home_song
parse_home_song(data) ==
    LET req == take_required(data, "videoId")
    IN IF ~req.ok THEN Err(req.data)
       ELSE LET sub == get_full_subtitle(req.data)
                art == parse_song_artists_from_runs(sub.data)
                alb == parse_album_from_subtitle_runs(art.data)
                pl == take_value_pointer(alb.data, "playlistId")
            IN IF ~art.ok THEN Err(art.data)
               ELSE IF ~alb.ok THEN Err(alb.data)
               ELSE [tag |-> "Song",
                     title |-> req.title,
                     video_id |-> req.id,
                     artists |-> art.artists,
                     thumbnails |-> req.thumbnails,
                     album |-> alb.album,
                     explicit |-> path_exists(alb.data, "badge"),
                     playlist_id |-> pl.val,
                     subtitle |-> sub.val,
                     data |-> pl.data]

\* The views filter of parse_home_video on the last " * "-separated part.
IsViews(v) == contains(v, S_views) \/ contains(v, S_visualizaciones) \/ AnyDigit(v)

\* parse_home_video
parse_home_video(data) ==
    LET req == take_required(data, "videoId")
    IN IF ~req.ok THEN Err(req.data)
       ELSE LET sub == get_full_subtitle(req.data)
                art == parse_song_artists_from_runs(sub.data)
                pl == take_value_pointer(art.data, "playlistId")
                last == IF IsSome(sub.val)
                        THEN SplitLast(Unwrap(sub.val), S_Bullet) ELSE <<>>
            IN IF ~art.ok THEN Err(art.data)
               ELSE [tag |-> "Video",
                     title |-> req.title,
                     video_id |-> req.id,
                     artists |-> art.artists,
                     thumbnails |-> req.thumbnails,
                     views |-> IF IsSome(sub.val) /\ IsViews(last)
                               THEN Some(last) ELSE None,
                     playlist_id |-> pl.val,
                     subtitle |-> sub.val,
                     data |-> pl.data]

\* parse_home_watch_playlist
parse_home_watch_playlist(data) ==
    LET req == take_required(data, "watchPlaylistId")
    IN IF ~req.ok THEN Err(req.data)
       ELSE LET sub == get_full_subtitle(req.data)
            IN [tag |-> "WatchPlaylist",
                title |-> req.title,
                playlist_id |-> req.id,
                thumbnails |-> req.thumbnails,
                subtitle |-> sub.val,
                data |-> sub.data]

\* parse_watch_item with the watch-playlist arm sending an absent video type
\* to the song parser.
parse_watch_item_absent_is_song(data) ==
    IF path_exists(data, "watchPlaylistId")
    THEN LET vt == take_value_pointer(data, "videoType")
             video_type == YoutubeMusicVideoType(vt.val)
         IN IF IsVideoType(video_type) THEN parse_home_video(vt.data)
            ELSE parse_home_song(vt.data)
    ELSE IF path_exists(data, "videoId")
    THEN LET vt == take_value_pointer(data, "videoType")
             video_type == YoutubeMusicVideoType(vt.val)
         IN IF IsVideoType(video_type) THEN parse_home_video(vt.data)
            ELSE parse_home_song(vt.data)
    ELSE [tag |-> "Skip", data |-> data]

\* parse_watch_item with the video-id arm treating an absent video type as it
\* is treated in the watch-playlist arm.
parse_watch_item_same_arms(data) ==
    IF path_exists(data, "watchPlaylistId") \/ path_exists(data, "videoId")
    THEN LET vt == take_value_pointer(data, "videoType")
             video_type == YoutubeMusicVideoType(vt.val)
         IN IF IsVideoType(video_type) THEN parse_home_video(vt.data)
            ELSE IF IsSome(video_type) THEN parse_home_song(vt.data)
            ELSE parse_home_watch_playlist(vt.data)
    ELSE [tag |-> "Skip", data |-> data]

\* The None arm of parse_home_item: a song, a video or a watch playlist.
parse_watch_item(data) ==
    IF path_exists(data, "watchPlaylistId")
    THEN LET vt == take_value_pointer(data, "videoType")
             video_type == YoutubeMusicVideoType(vt.val)
         IN IF IsVideoType(video_type) THEN parse_home_video(vt.data)
            ELSE IF IsSome(video_type) THEN parse_home_song(vt.data)
            ELSE parse_home_watch_playlist(vt.data)
    ELSE IF path_exists(data, "videoId")
    THEN LET vt == take_value_pointer(data, "videoType")
             video_type == YoutubeMusicVideoType(vt.val)
         IN IF IsVideoType(video_type) THEN parse_home_video(vt.data)
            ELSE parse_home_song(vt.data)
    ELSE [tag |-> "Skip", data |-> data]

\* parse_home_item testing for a watch target before the page type.
parse_home_item_watch_first(card) ==
    IF ~card.twoRow THEN [tag |-> "Skip", data |-> card]
    ELSE IF path_exists(card, "watchPlaylistId") \/ path_exists(card, "videoId")
    THEN parse_watch_item(card)
    ELSE LET pt == take_value_pointer(card, "pageType")
             page_type == pt.val
         IN IF page_type \in {Some("MUSIC_PAGE_TYPE_ALBUM"),
                              Some("MUSIC_PAGE_TYPE_AUDIOBOOK")}
            THEN parse_home_album(pt.data)
            ELSE IF page_type \in {Some("MUSIC_PAGE_TYPE_ARTIST"),
                                   Some("MUSIC_PAGE_TYPE_USER_CHANNEL")}
            THEN parse_home_artist(pt.data)
            ELSE IF page_type = Some("MUSIC_PAGE_TYPE_PLAYLIST")
            THEN parse_home_playlist(pt.data)
            ELSE [tag |-> "Skip", data |-> pt.data]

\* parse_home_item
parse_home_item(card) ==
    IF ~card.twoRow THEN [tag |-> "Skip", data |-> card]
    ELSE LET pt == take_value_pointer(card, "pageType")
             page_type == pt.val
         IN IF page_type \in {Some("MUSIC_PAGE_TYPE_ALBUM"),
                              Some("MUSIC_PAGE_TYPE_AUDIOBOOK")}
            THEN parse_home_album(pt.data)
            ELSE IF page_type \in {Some("MUSIC_PAGE_TYPE_ARTIST"),
                                   Some("MUSIC_PAGE_TYPE_USER_CHANNEL")}
            THEN parse_home_artist(pt.data)
            ELSE IF page_type = Some("MUSIC_PAGE_TYPE_PLAYLIST")
            THEN parse_home_playlist(pt.data)
            ELSE IF page_type = None
            THEN parse_watch_item(pt.data)
            ELSE [tag |-> "Skip", data |-> pt.data]

\* A parse result without the node it leaves behind.
Output(r) == [f \in DOMAIN r \ {"data"} |-> r[f]]

\* HomeSections::default
DefaultFeed == [chips |-> <<>>, sections |-> <<>>]

----------------------------------------------------------------------------
(* The section assembler and the two page parsers. *)

\* parse_mood_chip: the chip, or nothing when its title or params is missing.
parse_mood_chip(chip) ==
    IF IsSome(chip.title) /\ IsSome(chip.params)
    THEN <<[title |-> Unwrap(chip.title), params |-> Unwrap(chip.params)]>>
    ELSE <<>>

\* The item loop of parse_carousel_section from item k on; carousel_push is
\* the loop body on r, the result of parse_home_item for item k.
RECURSIVE carousel_items(_, _, _), carousel_push(_, _, _, _)
carousel_items(items, k, contents) ==
    IF k > Len(items) THEN [ok |-> TRUE, contents |-> contents]
    ELSE carousel_push(items, k, contents, parse_home_item(items[k]))

\* The loop body failing the row on an item that classifies as skip.
carousel_push_fail_on_skip(items, k, contents, r) ==
    IF r.tag = "Err" \/ r.tag = "Skip" THEN [ok |-> FALSE, contents |-> contents]
    ELSE carousel_items(items, k + 1, Append(contents, Output(r)))

carousel_push(items, k, contents, r) ==
    IF r.tag = "Err" THEN [ok |-> FALSE, contents |-> contents]
    ELSE IF r.tag = "Skip" THEN carousel_items(items, k + 1, contents)
    ELSE carousel_items(items, k + 1, Append(contents, Output(r)))

\* The HomeSection parse_carousel_section builds.
HomeSection(carousel, contents) ==
    [title |-> Unwrap(carousel.title),
     strapline |-> carousel.strapline,
     thumbnail |-> carousel.thumbnail,
     contents |-> contents]

\* The end of parse_carousel_section with an empty section kept.
carousel_result_keep_empty(carousel, r) ==
    IF ~r.ok THEN [tag |-> "Err"]
    ELSE [tag |-> "Some", section |-> HomeSection(carousel, r.contents)]

\* The end of parse_carousel_section, r being the outcome of the item loop.
carousel_result(carousel, r) ==
    IF ~r.ok THEN [tag |-> "Err"]
    ELSE IF r.contents = <<>> THEN [tag |-> "None"]
    ELSE [tag |-> "Some", section |-> HomeSection(carousel, r.contents)]

\* parse_carousel_section: tag "None" for Ok(None), "Some" for Ok(Some(section)).
parse_carousel_section(carousel) ==
    IF carousel.contents.shape = "absent" THEN [tag |-> "None"]
    ELSE IF ~carousel.header THEN [tag |-> "Err"]
    ELSE IF ~IsSome(carousel.title) THEN [tag |-> "Err"]
    ELSE IF carousel.contents.shape # "array" THEN [tag |-> "Err"]
    ELSE carousel_result(carousel, carousel_items(carousel.contents.items, 1, <<>>))

\* The chips of one chip cloud, in order.
cloud_chips(cloud) == Join([k \in 1..Len(cloud) |-> parse_mood_chip(cloud[k])])

\* The row loop of parse_home_contents from row k on; home_push is the loop
\* body on r, the result of parse_carousel_section for row k.
RECURSIVE home_rows(_, _, _, _), home_push(_, _, _, _, _)
home_rows(rows, k, chips, sections) ==
    IF k > Len(rows) THEN [ok |-> TRUE, chips |-> chips, sections |-> sections]
    ELSE IF IsSome(rows[k].chipCloud)
    THEN home_rows(rows, k + 1, chips \o cloud_chips(Unwrap(rows[k].chipCloud)),
                   sections)
    ELSE IF IsSome(rows[k].carousel)
    THEN home_push(rows, k, chips, sections,
                   parse_carousel_section(Unwrap(rows[k].carousel)))
    ELSE home_rows(rows, k + 1, chips, sections)

home_push(rows, k, chips, sections, r) ==
    IF r.tag = "Err" THEN [ok |-> FALSE, chips |-> chips, sections |-> sections]
    ELSE IF r.tag = "Some"
    THEN home_rows(rows, k + 1, chips, Append(sections, r.section))
    ELSE home_rows(rows, k + 1, chips, sections)

\* parse_home_contents
parse_home_contents(contents) ==
    IF contents.shape # "array" THEN [ok |-> FALSE, chips |-> <<>>, sections |-> <<>>]
    ELSE home_rows(contents.rows, 1, <<>>, <<>>)

\* The row loop of parse_mixed_content from row k on; mixed_push is the loop
\* body on r, the result of parse_carousel_section for row k.
RECURSIVE mixed_rows(_, _, _), mixed_push(_, _, _, _)
mixed_rows(rows, k, items) ==
    IF k > Len(rows) THEN [ok |-> TRUE, sections |-> items]
    ELSE IF IsSome(rows[k].carousel)
    THEN mixed_push(rows, k, items, parse_carousel_section(Unwrap(rows[k].carousel)))
    ELSE mixed_rows(rows, k + 1, items)

mixed_push(rows, k, items, r) ==
    IF r.tag = "Err" THEN [ok |-> FALSE, sections |-> items]
    ELSE IF r.tag = "Some" THEN mixed_rows(rows, k + 1, Append(items, r.section))
    ELSE mixed_rows(rows, k + 1, items)

\* parse_mixed_content
parse_mixed_content(contents) ==
    IF contents.shape # "array" THEN [ok |-> FALSE, sections |-> <<>>]
    ELSE mixed_rows(contents.rows, 1, <<>>)

\* HomeSections::new
HomeSections_new(chips, sections) == [chips |-> chips, sections |-> sections]

\* HomeSections::from_sections
from_sections(sections) == [chips |-> <<>>, sections |-> sections]

PageOk(op, f, cursor) == [tag |-> "Ok", op |-> op, feed |-> f, cursor |-> cursor]
PageErr(op) == [tag |-> "Err", op |-> op]

\* The end of parse_from_continuable, r being what parse_home_contents returned.
start_result(r, continuation_params) ==
    IF ~r.ok THEN PageErr("start")
    ELSE PageOk("start", HomeSections_new(r.chips, r.sections), continuation_params)

\* parse_from_continuable
parse_from_continuable(d) ==
    IF d.kind # "home" THEN PageErr("start")
    ELSE IF d.contents.shape = "absent" THEN PageErr("start")
    ELSE start_result(parse_home_contents(d.contents), d.continuation)

\* The end of parse_continuation returning no cursor with an empty section list.
resume_result_cursor_with_sections(r, continuation_params) ==
    IF ~r.ok THEN PageErr("resume")
    ELSE PageOk("resume", from_sections(r.sections),
                IF r.sections = <<>> THEN None ELSE continuation_params)

\* The end of parse_continuation, r being what parse_mixed_content returned.
resume_result(r, continuation_params) ==
    IF ~r.ok THEN PageErr("resume")
    ELSE PageOk("resume", from_sections(r.sections), continuation_params)

\* parse_continuation failing on a document without the continuation region.
parse_continuation_region_required(d) ==
    IF d.kind # "continuation" THEN PageErr("resume")
    ELSE IF d.contents.shape = "absent"
    THEN PageOk("resume", from_sections(<<>>), d.continuation)
    ELSE resume_result(parse_mixed_content(d.contents), d.continuation)

\* parse_continuation
parse_continuation(d) ==
    IF d.kind # "continuation" THEN PageOk("resume", DefaultFeed, None)
    ELSE IF d.contents.shape = "absent"
    THEN PageOk("resume", from_sections(<<>>), d.continuation)
    ELSE resume_result(parse_mixed_content(d.contents), d.continuation)

\* HomeSections::extend with the chips of the other feed appended as well.
extend_with_chips(self, other) ==
    [chips |-> self.chips \o other.chips, sections |-> self.sections \o other.sections]

\* HomeSections::extend
extend(self, other) == [self EXCEPT !.sections = self.sections \o other.sections]

\* HomeSections::truncate keeping the last len sections.
truncate_keep_last(self, len) ==
    IF len >= Len(self.sections) THEN self
    ELSE [self EXCEPT !.sections =
            SubSeq(self.sections, Len(self.sections) - len + 1, Len(self.sections))]

\* HomeSections::truncate
truncate(self, len) ==
    IF len >= Len(self.sections) THEN self
    ELSE [self EXCEPT !.sections = SubSeq(self.sections, 1, len)]

----------------------------------------------------------------------------
(* Item cards the classifier is run on. *)

S_Radiohead == <<"R", "a", "d", "i", "o", "h", "e", "a", "d">>
S_Muse == <<"M", "u", "s", "e">>
S_OKComputer == <<"O", "K", " ", "C", "o", "m", "p", "u", "t", "e", "r">>
S_1997 == <<"1", "9", "9", "7">>
S_5MViews == <<"5", "M", " ", "v", "i", "e", "w", "s">>
S_2M == <<"2", "M">>
S_UC1 == <<"U", "C", "1">>
S_MPRE1 == <<"M", "P", "R", "E", "b", "1">>
S_VLPL1 == <<"V", "L", "P", "L", "1">>

Run(text, id) == [text |-> text, browseId |-> id]

\* The separator run at the odd (0-based) positions of a subtitle.
SepRun == Run(Some(S_Bullet), None)

\* The content runs at the even (0-based) positions of a subtitle.
ContentRuns ==
    {Run(Some(S_Album), None), Run(Some(S_Song), None),
     Run(Some(S_Radiohead), Some(S_UC1)), Run(Some(S_Muse), None),
     Run(Some(S_OKComputer), Some(S_MPRE1)), Run(Some(S_1997), None),
     Run(Some(S_5MViews), None), Run(Some(S_2M), None), Run(None, None)}

\* Subtitle run arrays of n runs: content and separator alternate.
RunsOfLen(n) ==
    {[k \in 1..n |-> IF k % 2 = 1 THEN c[(k + 1) \div 2] ELSE SepRun] :
        c \in [1..((n + 1) \div 2) -> ContentRuns]}

AllRuns == UNION {RunsOfLen(n) : n \in 0..MaxRuns}

NoRuns == [shape |-> "absent", items |-> <<>>]
BadRuns == [shape |-> "other", items |-> <<>>]
ArrayRuns(items) == [shape |-> "array", items |-> items]

PageTypeValues ==
    {None, Some("MUSIC_PAGE_TYPE_ALBUM"), Some("MUSIC_PAGE_TYPE_AUDIOBOOK"),
     Some("MUSIC_PAGE_TYPE_ARTIST"), Some("MUSIC_PAGE_TYPE_USER_CHANNEL"),
     Some("MUSIC_PAGE_TYPE_PLAYLIST"), Some("MUSIC_PAGE_TYPE_PODCAST_SHOW_DETAIL_PAGE")}

VideoTypeValues ==
    {None, Some("MUSIC_VIDEO_TYPE_UNRECOGNISED")} \cup {Some(v) : v \in VideoTypes}

\* Cards over every combination of the fields the classifier branches on.
ClassCards ==
    [twoRow : BOOLEAN,
     pageType : PageTypeValues,
     title : {None, Some("Title")},
     browseId : {None, Some(S_UC1), Some(S_VLPL1)},
     thumbnails : {None, Some("Thumbs")},
     watchPlaylistId : {None, Some("RDAM1")},
     videoId : {None, Some("Vid1")},
     playlistId : {None},
     videoType : VideoTypeValues,
     badge : {None},
     runs : {NoRuns, BadRuns,
             ArrayRuns(<<Run(Some(S_Album), None), SepRun,
                         Run(Some(S_Radiohead), Some(S_UC1))>>)}]

\* Complete cards of every variant over every subtitle.
SubtitleCards ==
    [twoRow : {TRUE},
     pageType : {None, Some("MUSIC_PAGE_TYPE_ALBUM"), Some("MUSIC_PAGE_TYPE_ARTIST"),
                 Some("MUSIC_PAGE_TYPE_PLAYLIST")},
     title : {Some("Title")},
     browseId : {Some(S_VLPL1)},
     thumbnails : {Some("Thumbs")},
     watchPlaylistId : {None},
     videoId : {Some("Vid1")},
     playlistId : {Some("PL1")},
     videoType : {Some("MUSIC_VIDEO_TYPE_UGC"), Some("MUSIC_VIDEO_TYPE_ATV")},
     badge : {None, Some("Explicit")},
     runs : {ArrayRuns(r) : r \in AllRuns}]

Cards == ClassCards \cup SubtitleCards

\* A card that is no two-row item.
BlankCard ==
    [twoRow |-> FALSE, pageType |-> None, title |-> None, browseId |-> None,
     thumbnails |-> None, watchPlaylistId |-> None, videoId |-> None,
     playlistId |-> None, videoType |-> None, badge |-> None, runs |-> NoRuns]

NoResult == [tag |-> "None"]

----------------------------------------------------------------------------
(* The classifier on one card: the card is the input, ParseItem runs      *)
(* parse_home_item on it.                                                  *)

\* A document that is neither a first page nor a continuation page.
OtherDoc ==
    [kind |-> "other", continuation |-> None,
     contents |-> [shape |-> "absent", rows |-> <<>>]]

FeedIdle ==
    /\ doc = OtherDoc
    /\ lastOp = "none"
    /\ res = NoResult
    /\ feed = DefaultFeed
    /\ prevFeed = DefaultFeed
    /\ firstChips = <<>>
    /\ truncLen = 0

InitItem ==
    /\ item \in Cards
    /\ itemPc = "loaded"
    /\ itemRes = NoResult
    /\ itemData = item
    /\ FeedIdle

\* The caller of parse_home_item keeps what it returned, r.
ItemDone(r) ==
    /\ itemRes' = Output(r)
    /\ itemData' = r.data
    /\ itemPc' = "done"
    /\ UNCHANGED <<item, feedVars>>

ParseItem ==
    /\ itemPc = "loaded"
    /\ ItemDone(parse_home_item(item))

NextItem == ParseItem

SpecItem == InitItem /\ [][NextItem]_vars

----------------------------------------------------------------------------
(* The subtitle tokenizer on one subtitle: the input is a node whose        *)
(* subtitle runs are as the page document carries them, and each pass of    *)
(* the tokenizer is run on it.                                              *)

\* Nodes over every subtitle: no runs, runs that are no array, every run array.
TokenNodes ==
    {[BlankCard EXCEPT !.twoRow = TRUE, !.runs = r] :
        r \in {NoRuns, BadRuns} \cup {ArrayRuns(items) : items \in AllRuns}}

InitTokens ==
    /\ item \in TokenNodes
    /\ itemPc = "loaded"
    /\ itemRes = NoResult
    /\ itemData = item
    /\ FeedIdle

\* The caller of a tokenizer pass keeps what it returned, r.
TokensDone(pass, r) ==
    /\ itemRes' = [tag |-> pass, ok |-> r.ok, artists |-> r.artists]
    /\ itemData' = r.data
    /\ itemPc' = "done"
    /\ UNCHANGED <<item, feedVars>>

\* parse_artists_from_subtitle_runs on the node.
TokenizeArtists ==
    /\ itemPc = "loaded"
    /\ TokensDone("artists", parse_artists_from_subtitle_runs(itemData))

\* parse_song_artists_from_runs on the node.
TokenizeSongArtists ==
    /\ itemPc = "loaded"
    /\ TokensDone("song_artists", parse_song_artists_from_runs(itemData))

NextTokens == TokenizeArtists \/ TokenizeSongArtists

SpecTokens == InitTokens /\ [][NextTokens]_vars

----------------------------------------------------------------------------
(* Page documents. *)

AlbumCard ==
    [twoRow |-> TRUE, pageType |-> Some("MUSIC_PAGE_TYPE_ALBUM"),
     title |-> Some("OK Computer"), browseId |-> Some(S_MPRE1),
     thumbnails |-> Some("Thumbs"), watchPlaylistId |-> None, videoId |-> None,
     playlistId |-> None, videoType |-> None, badge |-> None,
     runs |-> ArrayRuns(<<Run(Some(S_Album), None), SepRun,
                          Run(Some(S_Radiohead), Some(S_UC1))>>)]

SongCard ==
    [twoRow |-> TRUE, pageType |-> None,
     title |-> Some("Uprising"), browseId |-> None,
     thumbnails |-> Some("Thumbs"), watchPlaylistId |-> None,
     videoId |-> Some("Vid1"), playlistId |-> None,
     videoType |-> Some("MUSIC_VIDEO_TYPE_ATV"), badge |-> None,
     runs |-> ArrayRuns(<<Run(Some(S_Song), None), SepRun, Run(Some(S_Muse), None)>>)]

\* A card with a page type the classifier does not know.
UnknownCard == [AlbumCard EXCEPT !.pageType = Some("MUSIC_PAGE_TYPE_PODCAST_SHOW_DETAIL_PAGE")]

\* An album card without thumbnails.
BrokenCard == [AlbumCard EXCEPT !.thumbnails = None]

\* A two-row card with neither page type nor watch-playlist id nor video id.
NoTargetCard == [BlankCard EXCEPT !.twoRow = TRUE, !.title = Some("Nowhere")]

Shelf(header, title, shape, items) ==
    [chipCloud |-> None,
     carousel |-> Some([header |-> header, title |-> title,
                        strapline |-> None, thumbnail |-> None,
                        contents |-> [shape |-> shape, items |-> items]])]

ChipRow(chips) == [chipCloud |-> Some(chips), carousel |-> None]

\* A row that is neither a chip cloud nor a shelf.
OtherRow == [chipCloud |-> None, carousel |-> None]

ChipX == [title |-> Some("Relax"), params |-> Some("pX")]
ChipZ == [title |-> Some("Fiesta"), params |-> Some("pZ")]
ChipNoParams == [title |-> Some("Energy"), params |-> None]

R_Albums == Shelf(TRUE, Some("Albums"), "array", <<AlbumCard>>)
R_Mixed ==
    Shelf(TRUE, Some("Listen again"), "array",
          <<BlankCard, SongCard, UnknownCard, NoTargetCard, AlbumCard>>)
R_AllSkip ==
    Shelf(TRUE, Some("Podcasts"), "array", <<BlankCard, UnknownCard, NoTargetCard>>)
R_NoTitle == Shelf(TRUE, None, "array", <<AlbumCard>>)
R_NoHeader == Shelf(FALSE, None, "array", <<SongCard>>)
R_Empty == Shelf(TRUE, Some("Empty"), "array", <<>>)
R_EmptyNoTitle == Shelf(TRUE, None, "array", <<>>)
R_NoContents == Shelf(TRUE, Some("Bare"), "absent", <<>>)
R_NoContentsNoHeader == Shelf(FALSE, None, "absent", <<>>)
R_Broken == Shelf(TRUE, Some("Broken"), "array", <<AlbumCard, BrokenCard>>)
R_ChipsX == ChipRow(<<ChipX, ChipNoParams>>)
R_ChipsZ == ChipRow(<<ChipZ>>)

Rows ==
    {R_Albums, R_Mixed, R_AllSkip, R_NoTitle, R_NoHeader, R_Empty, R_EmptyNoTitle,
     R_NoContents, R_NoContentsNoHeader, R_Broken, R_ChipsX, R_ChipsZ, OtherRow}

\* Row arrays of at most MaxRows rows.
Pages == UNION {[1..n -> Rows] : n \in 0..MaxRows}

Doc(kind, continuation, shape, rows) ==
    [kind |-> kind, continuation |-> continuation,
     contents |-> [shape |-> shape, rows |-> rows]]

\* The documents the page parsers are run on.
PageDocs ==
    {Doc(k, c, "array", rows) :
        k \in {"home", "continuation"}, c \in {None, Some("Token")}, rows \in Pages}
    \cup {Doc(k, c, sh, <<>>) :
            k \in {"home", "continuation"}, c \in {None, Some("Token")},
            sh \in {"absent", "other"}}
    \cup {OtherDoc}

\* The documents the caller's loop fetches.
FeedPages ==
    {<<>>, <<R_ChipsX, R_Albums>>, <<R_ChipsZ, R_Mixed>>, <<R_Mixed>>,
     <<R_AllSkip, R_Albums>>, <<R_Albums, R_Mixed>>, <<R_NoTitle, R_Albums>>}

FeedDocs ==
    {Doc(k, c, "array", rows) :
        k \in {"home", "continuation"}, c \in {None, Some("Token")}, rows \in FeedPages}
    \cup {OtherDoc}

----------------------------------------------------------------------------
(* The operations: the two page parsers on the fetched document, and the   *)
(* caller's operations on its running feed.                                *)

ItemIdle ==
    /\ item = BlankCard
    /\ itemPc = "idle"
    /\ itemRes = NoResult
    /\ itemData = BlankCard

\* fetch_initial / fetch_continuation: the collaborator hands over a document.
Fetch(d) ==
    /\ doc' = d
    /\ lastOp' = "fetch"
    /\ res' = NoResult
    /\ prevFeed' = feed
    /\ truncLen' = 0
    /\ UNCHANGED <<feed, firstChips, itemVars>>

\* start: parse_from_continuable on the document.
Start ==
    /\ res' = parse_from_continuable(doc)
    /\ lastOp' = "start"
    /\ UNCHANGED <<doc, feed, prevFeed, firstChips, truncLen, itemVars>>

\* resume: parse_continuation on the document.
Resume ==
    /\ res' = parse_continuation(doc)
    /\ lastOp' = "resume"
    /\ UNCHANGED <<doc, feed, prevFeed, firstChips, truncLen, itemVars>>

\* The caller takes the first page as its running feed.
Begin ==
    /\ lastOp = "start"
    /\ res.tag = "Ok"
    /\ feed' = res.feed
    /\ prevFeed' = feed
    /\ firstChips' = res.feed.chips
    /\ lastOp' = "begin"
    /\ truncLen' = 0
    /\ UNCHANGED <<doc, res, itemVars>>

\* The caller merges the page just parsed into its running feed.
Merge ==
    /\ lastOp \in {"start", "resume"}
    /\ res.tag = "Ok"
    /\ Len(feed.sections) + Len(res.feed.sections) <= MaxSections
    /\ feed' = extend(feed, res.feed)
    /\ prevFeed' = feed
    /\ lastOp' = "merge"
    /\ truncLen' = 0
    /\ UNCHANGED <<doc, res, firstChips, itemVars>>

\* The caller truncates its running feed to len sections.
Truncate(len) ==
    /\ feed' = truncate(feed, len)
    /\ prevFeed' = feed
    /\ truncLen' = len
    /\ lastOp' = "truncate"
    /\ UNCHANGED <<doc, res, firstChips, itemVars>>

Init == ItemIdle /\ FeedIdle

Next ==
    \/ \E d \in FeedDocs : Fetch(d)
    \/ Start
    \/ Resume
    \/ Begin
    \/ Merge
    \/ \E len \in 0..(MaxSections + 1) : Truncate(len)

Spec == Init /\ [][Next]_vars

\* The page parsers alone, on every document of PageDocs.
InitPage ==
    /\ ItemIdle
    /\ doc \in PageDocs
    /\ lastOp = "fetch"
    /\ res = NoResult
    /\ feed = DefaultFeed
    /\ prevFeed = DefaultFeed
    /\ firstChips = <<>>
    /\ truncLen = 0

NextPage == Start \/ Resume

SpecPage == InitPage /\ [][NextPage]_vars

----------------------------------------------------------------------------
(* Claims on the classifier, under SpecItem. *)

AlbumMarkers == {Some("MUSIC_PAGE_TYPE_ALBUM"), Some("MUSIC_PAGE_TYPE_AUDIOBOOK")}
ArtistMarkers == {Some("MUSIC_PAGE_TYPE_ARTIST"), Some("MUSIC_PAGE_TYPE_USER_CHANNEL")}
PlaylistMarkers == {Some("MUSIC_PAGE_TYPE_PLAYLIST")}

\* The card is a two-row item whose marker is one of ms.
Marked(ms) == item.twoRow /\ item.pageType \in ms

\* The card is a two-row item without a page-category marker.
Unmarked == item.twoRow /\ item.pageType = None

\* The card has its title text, its thumbnails and the identifier at idPath.
HasRequired(idPath) ==
    IsSome(item.title) /\ IsSome(item.thumbnails) /\ IsSome(item[idPath])

\* The video type on the watch target is one of UGC, OMV, SHOULDER.
VideoEnum ==
    item.videoType \in {Some("MUSIC_VIDEO_TYPE_UGC"), Some("MUSIC_VIDEO_TYPE_OMV"),
                        Some("MUSIC_VIDEO_TYPE_SHOULDER")}

\* The video type on the watch target is another concrete value.
OtherEnum ==
    item.videoType \in {Some("MUSIC_VIDEO_TYPE_ATV"),
                        Some("MUSIC_VIDEO_TYPE_OFFICIAL_SOURCE_MUSIC")}

\* C1 as stated: a card with a page-category marker always gives the marker's
\* variant, whatever other fields are present or absent.
C1_MarkerAloneDecides ==
    itemPc = "done" =>
        /\ Marked(AlbumMarkers) => itemRes.tag = "Album"
        /\ Marked(ArtistMarkers) => itemRes.tag = "Artist"
        /\ Marked(PlaylistMarkers) => itemRes.tag = "Playlist"

\* C1 amended: a card with a page-category marker gives the marker's variant
\* whatever its watch-playlist id, video id and video type are, when it has its
\* title text, browse id and thumbnails (and, for an Album, subtitle runs that
\* are absent or an array); when it has not, the result is an error, never
\* another variant and never skip.
C1_MarkerDecidesVariant ==
    itemPc = "done" =>
        /\ Marked(AlbumMarkers) =>
              itemRes.tag = IF HasRequired("browseId") /\ item.runs.shape # "other"
                            THEN "Album" ELSE "Err"
        /\ Marked(ArtistMarkers) =>
              itemRes.tag = IF HasRequired("browseId") THEN "Artist" ELSE "Err"
        /\ Marked(PlaylistMarkers) =>
              itemRes.tag = IF HasRequired("browseId") THEN "Playlist" ELSE "Err"

\* An AUDIOBOOK card that also has a watch-playlist id, a video id and a video
\* type, parsed as an Album.
C1_Witness ==
    /\ itemPc = "done"
    /\ Marked({Some("MUSIC_PAGE_TYPE_AUDIOBOOK")})
    /\ IsSome(item.watchPlaylistId) /\ IsSome(item.videoId) /\ VideoEnum
    /\ itemRes.tag = "Album"

\* C2 as stated: without a marker and with a watch-playlist id, UGC, OMV or
\* SHOULDER gives Video, another concrete video type gives Song, and an absent
\* video type gives WatchPlaylist.
C2_WatchPlaylistArm ==
    itemPc = "done" /\ Unmarked /\ IsSome(item.watchPlaylistId) =>
        /\ VideoEnum => itemRes.tag = "Video"
        /\ OtherEnum => itemRes.tag = "Song"
        /\ item.videoType = None => itemRes.tag = "WatchPlaylist"

\* C2 amended: the same table holds of a card that has its title text and
\* thumbnails and, where the video type is present, a video id and subtitle
\* runs that are absent or an array; a card that has not gives an error.
C2_WatchPlaylistArmComplete ==
    itemPc = "done" /\ Unmarked /\ IsSome(item.watchPlaylistId) =>
        /\ VideoEnum =>
              itemRes.tag = IF HasRequired("videoId") /\ item.runs.shape # "other"
                            THEN "Video" ELSE "Err"
        /\ OtherEnum =>
              itemRes.tag = IF HasRequired("videoId") /\ item.runs.shape # "other"
                            THEN "Song" ELSE "Err"
        /\ item.videoType = None =>
              itemRes.tag = IF HasRequired("watchPlaylistId")
                            THEN "WatchPlaylist" ELSE "Err"

\* A card with a watch-playlist id, a video id and no video type, parsed as a
\* WatchPlaylist.
C2_Witness ==
    /\ itemPc = "done" /\ Unmarked
    /\ IsSome(item.watchPlaylistId) /\ IsSome(item.videoId)
    /\ item.videoType = None
    /\ itemRes.tag = "WatchPlaylist"

\* C3 as stated: without a marker and without a watch-playlist id, a card with
\* a video id gives Video for UGC, OMV or SHOULDER and Song otherwise, and a
\* card without a video id is skipped.
C3_VideoIdArm ==
    itemPc = "done" /\ Unmarked /\ ~IsSome(item.watchPlaylistId) =>
        /\ IsSome(item.videoId) /\ VideoEnum => itemRes.tag = "Video"
        /\ IsSome(item.videoId) /\ ~VideoEnum => itemRes.tag = "Song"
        /\ ~IsSome(item.videoId) => itemRes.tag = "Skip"

\* C3 amended: the same table holds of a card that has its title text and
\* thumbnails and subtitle runs that are absent or an array; a card with a
\* video id that has not gives an error; a card without a video id is skipped.
C3_VideoIdArmComplete ==
    itemPc = "done" /\ Unmarked /\ ~IsSome(item.watchPlaylistId) =>
        /\ IsSome(item.videoId) /\ VideoEnum =>
              itemRes.tag = IF HasRequired("videoId") /\ item.runs.shape # "other"
                            THEN "Video" ELSE "Err"
        /\ IsSome(item.videoId) /\ ~VideoEnum =>
              itemRes.tag = IF HasRequired("videoId") /\ item.runs.shape # "other"
                            THEN "Song" ELSE "Err"
        /\ ~IsSome(item.videoId) => itemRes.tag = "Skip"

\* A card with a video id and neither watch-playlist id nor video type, parsed
\* as a Song.
C3_Witness ==
    /\ itemPc = "done" /\ Unmarked
    /\ ~IsSome(item.watchPlaylistId) /\ IsSome(item.videoId)
    /\ item.videoType = None
    /\ itemRes.tag = "Song"

\* The content tokens of the card's subtitle: the runs at the even (0-based)
\* positions.
ContentTokens ==
    [k \in 1..((Len(item.runs.items) + 1) \div 2) |-> item.runs.items[2 * k - 1]]

\* A content token that is a name: a text that is no type marker, no year, and
\* carries neither a digit nor view vocabulary nor an album-reference id.
IsNameToken(run) ==
    /\ IsSome(run.text)
    /\ Unwrap(run.text) \notin TypeSpecifiers
    /\ ~AnyDigit(Unwrap(run.text))
    /\ ~contains(Unwrap(run.text), S_views)
    /\ ~(IsSome(run.browseId) /\ starts_with(Unwrap(run.browseId), S_MPRE))

\* The card is a complete Album card whose subtitle is a type marker, one or
\* more names and a four-digit token, separators between them.
AlbumSubtitleCard ==
    /\ Marked(AlbumMarkers) /\ HasRequired("browseId")
    /\ item.runs.shape = "array"
    /\ Len(item.runs.items) % 2 = 1
    /\ Len(ContentTokens) >= 3
    /\ ContentTokens[1].text \in {Some(t) : t \in TypeSpecifiers}
    /\ \A k \in 2..(Len(ContentTokens) - 1) : IsNameToken(ContentTokens[k])
    /\ IsSome(ContentTokens[Len(ContentTokens)].text)
    /\ LooksLikeYear(Unwrap(ContentTokens[Len(ContentTokens)].text))

\* C10 as stated: for such a card parse_home_album returns the name tokens, in
\* order, as the artist list, and the four-digit token as the year.
C10_AlbumArtistsAndYear ==
    itemPc = "done" /\ AlbumSubtitleCard =>
        /\ itemRes.tag = "Album"
        /\ itemRes.artists =
              [k \in 1..(Len(ContentTokens) - 2) |->
                  [name |-> Unwrap(ContentTokens[k + 1].text),
                   id |-> ContentTokens[k + 1].browseId]]
        /\ itemRes.year = ContentTokens[Len(ContentTokens)].text

\* The item variants.
Variants == {"Album", "Artist", "Playlist", "Song", "Video", "WatchPlaylist"}

\* The paths the parser of a variant takes from the card besides the subtitle
\* runs: the page type, the title text, the variant's identifier and the
\* thumbnails, and for the watch variants the video type and the playlist id.
TakenPaths(tag) ==
    {"pageType", "title", "thumbnails"}
    \cup (IF tag \in {"Album", "Artist", "Playlist"} THEN {"browseId"} ELSE {})
    \cup (IF tag \in {"Song", "Video"} THEN {"videoId", "videoType", "playlistId"}
          ELSE {})
    \cup (IF tag = "WatchPlaylist" THEN {"watchPlaylistId", "videoType"} ELSE {})

\* What the parser of a variant read from the run texts after get_full_subtitle
\* had taken them is absent: no artist or author, no year, album type, count
\* or album.
RereadAbsent ==
    /\ itemRes.tag = "Album" =>
          itemRes.artists = <<>> /\ itemRes.year = None /\ itemRes.album_type = None
    /\ itemRes.tag = "Playlist" => itemRes.author = <<>> /\ itemRes.count = None
    /\ itemRes.tag = "Song" => itemRes.artists = <<>> /\ itemRes.album = None
    /\ itemRes.tag = "Video" => itemRes.artists = <<>>

----------------------------------------------------------------------------
(* Claims on the subtitle tokenizer, under SpecTokens. *)

\* The token's identifier is present and begins with the album-reference
\* prefix.
IsAlbumReference(run) ==
    IsSome(run.browseId) /\ starts_with(Unwrap(run.browseId), S_MPRE)

\* The entry of an artist list is the name and identifier of the token.
EntryOf(entry, run) ==
    IsSome(run.text) /\ entry = [name |-> Unwrap(run.text), id |-> run.browseId]

IsYearOrCount(run) ==
    /\ run.browseId = None
    /\ IsSome(run.text)
    /\ LooksLikeYear(Unwrap(run.text)) \/ IsViews(Unwrap(run.text))

----------------------------------------------------------------------------
(* Claims on the page parsers, under SpecPage. *)

\* The document has the region the last operation parses, with a row array.
RegionParsed ==
    /\ \/ lastOp = "start" /\ doc.kind = "home"
       \/ lastOp = "resume" /\ doc.kind = "continuation"
    /\ doc.contents.shape = "array"

\* The row is one the last operation hands to parse_carousel_section.
IsShelfRow(row) ==
    /\ IsSome(row.carousel)
    /\ lastOp = "start" => ~IsSome(row.chipCloud)

\* C4: resume on a document without the continuation-content region returns
\* success with an empty feed (no chips, no sections) and no cursor, on every
\* call.
C4_ResumeWithoutRegion ==
    lastOp = "resume" /\ doc.kind # "continuation" =>
        /\ res.tag = "Ok"
        /\ res.feed.chips = <<>>
        /\ res.feed.sections = <<>>
        /\ res.cursor = None

\* resume has run on a first-page document that has rows and a continuation
\* entry, and returned the empty feed.
C4_Witness ==
    /\ lastOp = "resume"
    /\ doc.kind = "home" /\ IsSome(doc.continuation)
    /\ doc.contents.rows # <<>>
    /\ res.tag = "Ok" /\ res.feed = DefaultFeed

\* A shelf row that has items and lacks its title.
TitlelessShelf(row) ==
    /\ IsShelfRow(row)
    /\ Unwrap(row.carousel).contents.shape = "array"
    /\ Unwrap(row.carousel).contents.items # <<>>
    /\ ~Unwrap(row.carousel).header \/ ~IsSome(Unwrap(row.carousel).title)

\* The document without its titleless shelf rows.
WithoutTitleless ==
    [doc EXCEPT !.contents.rows =
        SelectSeq(doc.contents.rows, LAMBDA row : ~TitlelessShelf(row))]

\* C8 as stated: a shelf row with items and no title yields no section, and
\* start and resume return what they return for the page's other rows.
C8_TitlelessRowConfined ==
    RegionParsed /\ (\E k \in 1..Len(doc.contents.rows) :
                        TitlelessShelf(doc.contents.rows[k])) =>
        res = IF lastOp = "start" THEN parse_from_continuable(WithoutTitleless)
              ELSE parse_continuation(WithoutTitleless)

\* What parse_home_item returns for each card of a shelf.
ItemResults(carousel) ==
    [k \in 1..Len(carousel.contents.items) |->
        parse_home_item(carousel.contents.items[k])]

\* The shelf is parsed without an error: it has no item array, or it has its
\* header and title and none of its cards gives an error.
CleanShelf(carousel) ==
    \/ carousel.contents.shape = "absent"
    \/ /\ carousel.header /\ IsSome(carousel.title)
       /\ carousel.contents.shape = "array"
       /\ \A k \in 1..Len(carousel.contents.items) :
              ItemResults(carousel)[k].tag # "Err"

\* The successfully classified items of a shelf, in the order of their cards.
Classified(carousel) ==
    LET kept == SelectSeq(ItemResults(carousel), LAMBDA r : r.tag # "Skip")
    IN [k \in 1..Len(kept) |-> Output(kept[k])]

\* The shelf rows of the document that have a classified item, in order.
ContributingRows ==
    SelectSeq(doc.contents.rows,
              LAMBDA row : /\ IsShelfRow(row)
                           /\ Unwrap(row.carousel).contents.shape = "array"
                           /\ Classified(Unwrap(row.carousel)) # <<>>)

\* C9: when no card of the page gives an error, cards that classify as skip
\* are dropped without error: start and resume succeed, and the sections are
\* those of the rows with a classified item, each holding exactly the row's
\* classified items in the order of their cards.
C9_SkippedItemsDropped ==
    RegionParsed /\ (\A k \in 1..Len(doc.contents.rows) :
                        IsShelfRow(doc.contents.rows[k]) =>
                            CleanShelf(Unwrap(doc.contents.rows[k].carousel))) =>
        /\ res.tag = "Ok"
        /\ Len(res.feed.sections) = Len(ContributingRows)
        /\ \A i \in 1..Len(ContributingRows) :
              res.feed.sections[i].contents =
                  Classified(Unwrap(ContributingRows[i].carousel))

\* resume has parsed a page whose rows hold cards that classify as skip (no
\* two-row item, an unknown page type, no watch or video id), among them a row
\* of five cards of which two are kept.
C9_Witness ==
    /\ lastOp = "resume" /\ doc.kind = "continuation"
    /\ doc.contents.rows = <<R_AllSkip, R_Mixed>>
    /\ res.tag = "Ok"
    /\ Len(res.feed.sections) = 1
    /\ Len(res.feed.sections[1].contents) = 2
    /\ res.feed.sections[1].contents[1].tag = "Song"
    /\ res.feed.sections[1].contents[2].tag = "Album"

\* A shelf row whose item list is absent or empty.
ItemlessShelf(row) ==
    /\ IsShelfRow(row)
    /\ \/ Unwrap(row.carousel).contents.shape = "absent"
       \/ /\ Unwrap(row.carousel).contents.shape = "array"
          /\ Unwrap(row.carousel).contents.items = <<>>

\* The document without its itemless shelf rows.
WithoutItemless ==
    [doc EXCEPT !.contents.rows =
        SelectSeq(doc.contents.rows, LAMBDA row : ~ItemlessShelf(row))]

\* C13 as stated: a shelf row whose item list is absent or empty, with or
\* without header and title, yields no section and no error: start and resume
\* return what they return for the page's other rows.
C13_ItemlessRowDropped ==
    RegionParsed /\ (\E k \in 1..Len(doc.contents.rows) :
                        ItemlessShelf(doc.contents.rows[k])) =>
        res = IF lastOp = "start" THEN parse_from_continuable(WithoutItemless)
              ELSE parse_continuation(WithoutItemless)

\* The document has the region the last operation looks for: the section list
\* of a first page for start, the continuation section list for resume.
HasRegion ==
    \/ lastOp = "start" /\ doc.kind = "home"
    \/ lastOp = "resume" /\ doc.kind = "continuation"

\* C14: a start or resume that returns a feed returns with it the continuation
\* entry of the region it parsed as the cursor, and no cursor when the region
\* has no such entry or is not there, however many sections the page yields;
\* and resume on a region that has a continuation entry and no rows returns
\* an empty section list together with that cursor.
C14_CursorIsContinuationEntry ==
    /\ lastOp \in {"start", "resume"} /\ res.tag = "Ok" =>
          res.cursor = IF HasRegion THEN doc.continuation ELSE None
    /\ lastOp = "resume" /\ doc.kind = "continuation"
          /\ doc.contents.shape \in {"absent", "array"}
          /\ doc.contents.rows = <<>> =>
          /\ res.tag = "Ok"
          /\ res.feed.sections = <<>>
          /\ res.cursor = doc.continuation

\* resume has parsed a continuation region that has a continuation entry and
\* an empty row array, and returned no section and the cursor.
C14_Witness ==
    /\ lastOp = "resume" /\ doc.kind = "continuation"
    /\ doc.continuation = Some("Token")
    /\ doc.contents.shape = "array" /\ doc.contents.rows = <<>>
    /\ res.tag = "Ok" /\ res.feed.sections = <<>>
    /\ res.cursor = Some("Token")

----------------------------------------------------------------------------
(* Claims on the running feed, under Spec. *)

Min(a, b) == IF a <= b THEN a ELSE b

\* C5: a merge leaves the chips of the running feed as they were and appends
\* the merged page's sections, in order, to the feed's sections; the chips of
\* the running feed are always those of the page it began with.
C5_MergeKeepsChips ==
    /\ feed.chips = firstChips
    /\ lastOp = "merge" =>
          /\ feed.chips = prevFeed.chips
          /\ feed.sections = prevFeed.sections \o res.feed.sections

\* A page with chips and a section has been merged into a feed with other
\* chips and a section.
C5_Witness ==
    /\ lastOp = "merge"
    /\ res.feed.chips # <<>> /\ prevFeed.chips # <<>>
    /\ res.feed.chips # prevFeed.chips
    /\ res.feed.sections # <<>> /\ prevFeed.sections # <<>>

\* C6: truncate(n) on a feed of k sections leaves the first min(n, k) sections
\* as they were, in order, removes the rest, and leaves the chips; with n >= k
\* the feed is unchanged.
C6_TruncateKeepsPrefix ==
    lastOp = "truncate" =>
        /\ Len(feed.sections) = Min(truncLen, Len(prevFeed.sections))
        /\ \A i \in 1..Len(feed.sections) : feed.sections[i] = prevFeed.sections[i]
        /\ feed.chips = prevFeed.chips
        /\ truncLen >= Len(prevFeed.sections) => feed = prevFeed

\* A feed with chips and three sections, the first unlike the last, has been
\* truncated to two.
C6_Witness ==
    /\ lastOp = "truncate"
    /\ Len(prevFeed.sections) = 3 /\ truncLen = 2
    /\ prevFeed.sections[1] # prevFeed.sections[3]
    /\ Len(feed.sections) = 2
    /\ feed.chips # <<>>

\* C7: every section of a feed start or resume returned, and of the running
\* feed built from such feeds by merges and truncations, has an item.
C7_NoEmptySection ==
    /\ \A i \in 1..Len(feed.sections) : Len(feed.sections[i].contents) >= 1
    /\ res.tag = "Ok" =>
          \A i \in 1..Len(res.feed.sections) :
              Len(res.feed.sections[i].contents) >= 1

\* A page with a row whose cards all classify as skip, followed by a row with
\* an album, has given one section, merged into the running feed.
C7_Witness ==
    /\ lastOp = "merge"
    /\ doc.contents.rows = <<R_AllSkip, R_Albums>>
    /\ Len(res.feed.sections) = 1
    /\ feed.sections # <<>>

====
